---- MODULE Spec2Model ----
(***************************************************************************)
(* Model of src/models/seqrec_opt.py: the OPT-based sequential recommender *)
(* (OPTSeqRec), its prompt-conditioned variant (OPTPromptSeqRec) and the   *)
(* layer-wise optimizer construction.                                      *)
(*                                                                         *)
(* Spec    : construction of the prompt model and the two-pass forward     *)
(*           protocol of OPTPromptSeqRec._get_opt_output, next to the      *)
(*           plain OPTSeqRec._get_opt_output on the same batch.            *)
(* SpecOpt : OPTSeqRec._freeze_plm_layers, _set_opt_lr and                 *)
(*           configure_optimizers.                                         *)
(* SpecPreInfer : PreInferOPTSeqRec.forward through _feature_extract to    *)
(*           _get_opt_output, with the binding of arguments to parameters. *)
(*                                                                         *)
(* Tensors are modelled by their shape along the sequence axis: an         *)
(* attention mask is a sequence of 0/1, a key or value tensor of one layer *)
(* is the sequence of the segments ("prefix", "real", "postfix") its       *)
(* positions come from.  Hidden states are identified by the backbone call *)
(* that produced them.  Learning rates are exact rationals with the common *)
(* denominator den^L (float rounding is not modelled).                     *)
(***************************************************************************)
EXTENDS Integers, Sequences, FiniteSets, TLC

\* ---- bounds ------------------------------------------------------------
MaxLayers == 2
MaxSegLen == 2
MaxTokenLen == 5
MaxLr == 2
MaxDecay == 3

VARIABLES
    num_hidden_layers,    \* self.opt.config.num_hidden_layers
    plm_last_n_unfreeze,  \* hparams.config.plm_last_n_unfreeze
    pre_seq_len,          \* hparams.config.pre_seq_len
    post_seq_len,         \* hparams.config.post_seq_len
    last_query_len,       \* hparams.config.last_query_len
    pooling_method,       \* hparams.config.pooling_method
    prompt_layers,        \* (key, value) pairs a DeepPromptEncoder returns
    constructed,          \* "none" | "ok" | "error"  (OPTPromptSeqRec.__init__)
    pc,                   \* position inside OPTPromptSeqRec._get_opt_output
    err,                  \* exception raised, "none" if none
    attention_mask,       \* the attention_mask argument of the forward call
    prompt_attention_mask,\* local of _get_opt_output
    past_key_values,      \* local of _get_opt_output
    step1_cache,          \* output.past_key_values as returned by pass 1
    calls,                \* backbone calls made by the prompt model
    output,               \* result of pass 1
    last_token_embs,      \* result of pass 2
    item_embs,            \* pooled result of the prompt model
    plain_calls,          \* backbone calls made by OPTSeqRec._get_opt_output
    plain_item_embs,      \* pooled result of OPTSeqRec._get_opt_output
    requires_grad,        \* param -> requires_grad flag
    raised,               \* outcome of the last _freeze_plm_layers call
    set_opt_lr_args,      \* arguments of the last _set_opt_lr call
    optimizer,            \* param groups handed to AdamW, <<>> before
    pi_pooling_method,    \* hparams.config.pooling_method of PreInferOPTSeqRec
    pi_opt,               \* PreInferOPTSeqRec.opt: "unset" | "None" | "model"
    pi_pc,                \* position inside PreInferOPTSeqRec.forward
    pi_err,               \* exception raised by forward, "none" if none
    pi_forward,           \* parameters of forward as bound by the caller
    pi_feature_extract,   \* parameters of _feature_extract as bound
    pi_get_opt_output,    \* parameters of _get_opt_output as bound
    pi_calls,             \* backbone calls made by PreInferOPTSeqRec
    pi_pooled,            \* pooling done in _get_opt_output
    pi_output             \* value forward returns

cfgVars == <<num_hidden_layers, plm_last_n_unfreeze, pre_seq_len, post_seq_len,
             last_query_len, pooling_method, prompt_layers, constructed>>
fwdVars == <<pc, err, attention_mask, prompt_attention_mask, past_key_values,
             step1_cache, calls, output, last_token_embs, item_embs>>
plainVars == <<plain_calls, plain_item_embs>>
optVars == <<requires_grad, raised, set_opt_lr_args, optimizer>>
preVars == <<pi_pooling_method, pi_opt, pi_pc, pi_err, pi_forward,
             pi_feature_extract, pi_get_opt_output, pi_calls, pi_pooled,
             pi_output>>
vars == <<cfgVars, fwdVars, plainVars, optVars, preVars>>

\* ---- values ------------------------------------------------------------
\* a cache argument that is not passed (past_key_values=None)
None == <<>>
\* a local that no assignment has bound yet
Unbound == [unbound |-> TRUE]
PoolingMethods == {"mean", "last", "mean_last"}

\* torch.ones(plm_batch_size, n): the row of one batch element
Ones(n) == [i \in 1..n |-> 1]

\* attention masks of a tokenized item text of padded length len: the text
\* fills the row, or leaves its last position as padding
PaddedMasks(len) ==
    {[i \in 1..len |-> IF i <= k THEN 1 ELSE 0] : k \in {len - 1, len} \ {0}}

\* one layer's key (or value) tensor of n positions that stem from segment seg
Positions(n, seg) == [i \in 1..n |-> seg]

\* sequence length (dim 2) of a cache; the cache None has length 0
CacheLen(cache) ==
    IF cache = None THEN 0 ELSE Len(cache[1][1])

\* ---- collaborators (models.layers, models.partial_opt, models.utils) ----
\* DeepPromptEncoder.forward(batch): one (key, value) pair per layer, each of
\* the configured prompt length
DeepPromptEncoder(n_layers, prompt_seq_len, seg) ==
    [l \in 1..n_layers |->
        <<Positions(prompt_seq_len, seg), Positions(prompt_seq_len, seg)>>]

\* PromptEncoder.forward(batch): prompt_seq_len embeddings
PromptEncoder(prompt_seq_len) ==
    [kind |-> "inputs_embeds", len |-> prompt_seq_len]

InputIds(len) == [kind |-> "input_ids", len |-> len]

\* the arguments of one backbone call
OptCall(input, mask, past, no_grad) ==
    [input |-> input, attention_mask |-> mask, past_key_values |-> past,
     no_grad |-> no_grad]

\* PartialOPTModel.forward: the backbone indexes the given cache per kept
\* layer and returns, per kept layer, the given entries followed by the
\* entries of the new positions; hidden states cover the new positions.
OptFails(call) ==
    /\ call.past_key_values # None
    /\ Len(call.past_key_values) < num_hidden_layers

OptForward(call) ==
    [last_hidden_state |-> [of |-> call, len |-> call.input.len],
     past_key_values |->
        [l \in 1..num_hidden_layers |->
            IF call.past_key_values = None
            THEN <<Positions(call.input.len, "real"),
                   Positions(call.input.len, "real")>>
            ELSE <<call.past_key_values[l][1] \o Positions(call.input.len, "real"),
                   call.past_key_values[l][2] \o Positions(call.input.len, "real")>>]]

\* models.utils.mean_pooling / last_pooling
mean_pooling(sentence_embs, mask) ==
    [method |-> "mean", hidden |-> sentence_embs, mask |-> mask]
last_pooling(sentence_embs, mask) ==
    [method |-> "last", hidden |-> sentence_embs, mask |-> mask]
\* last_hidden_state[:, -1, :]
LastPosition(hidden) ==
    [method |-> "index", hidden |-> hidden, pos |-> hidden.len]
\* fusion_mlp(torch.cat([mean_embs, last_embs], dim=-1))
Fusion(mean_embs, last_embs) ==
    [method |-> "mean_last", mean |-> mean_embs, last |-> last_embs]

\* ---- parameters of the model --------------------------------------------
\* names of self.opt.named_parameters(), in registration order:
\*   decoder.embed_tokens.weight, decoder.final_layer_norm.{weight,bias},
\*   decoder.layers.<i>.fc1.{weight,bias}
OptParamName(kind, idx, leaf) == [kind |-> kind, idx |-> idx, leaf |-> leaf]

OptNamedParameters(L) ==
    <<OptParamName("embed_", 0, "weight"),
      OptParamName("other", 0, "weight"),
      OptParamName("other", 0, "bias")>>
    \o [k \in 1..(2 * L) |->
          OptParamName("layers", (k - 1) \div 2,
                       IF k % 2 = 1 THEN "weight" ELSE "bias")]

\* "opt." + name
Qualify(name) ==
    [module |-> "opt", kind |-> name.kind, idx |-> name.idx, leaf |-> name.leaf]

\* parameters outside the backbone: classification_head.{weight,bias}
RestNamedParameters ==
    <<[module |-> "classification_head", kind |-> "rest", idx |-> 0,
       leaf |-> "weight"],
      [module |-> "classification_head", kind |-> "rest", idx |-> 0,
       leaf |-> "bias"]>>

\* names of self.named_parameters()
NamedParameters(L) ==
    [k \in 1..Len(OptNamedParameters(L)) |-> Qualify(OptNamedParameters(L)[k])]
    \o RestNamedParameters

Range(seq) == {seq[k] : k \in 1..Len(seq)}

\* ---- OPTSeqRec._freeze_plm_layers (lines 31-47) --------------------------
FreezeRaises(n, L) == n < -1 \/ n > L

\* variant: the first n layers are unfrozen instead of the last n
UnfreezeLayers_FirstN(n, L) == {i \in 0..(L - 1) : i < n}

\* indices of self.opt.decoder.layers[-n:]
UnfreezeLayers(n, L) ==
    {i \in 0..(L - 1) : i >= (IF L - n < 0 THEN 0 ELSE L - n)}

FreezeFlags(flags, n, L) ==
    [p \in DOMAIN flags |->
        IF p.module # "opt" THEN flags[p]
        ELSE IF n = -1 THEN TRUE
        ELSE IF n > 0 /\ p.kind = "layers" /\ p.idx \in UnfreezeLayers(n, L)
             THEN TRUE
             ELSE FALSE]

\* ---- OPTSeqRec._set_opt_lr (lines 113-136) -------------------------------
RECURSIVE Pow(_, _)
Pow(b, e) == IF e = 0 THEN 1 ELSE b * Pow(b, e - 1)

\* variant: the exponent starts at 0 for the deepest layer
Lrs_DeepestAtBase(lr, num, den, L) ==
    [k \in 1..L |-> lr * Pow(num, L - k) * Pow(den, k)]

\* lrs[i] = lr * layer_decay ** (n_layers - i) with layer_decay = num / den,
\* as the numerator over the common denominator den ** n_layers
Lrs(lr, num, den, L) ==
    [k \in 1..L |-> lr * Pow(num, L - (k - 1)) * Pow(den, k - 1)]

\* no_weight_decay = ["bias", "LayerNorm.weight"]; no OPT parameter name
\* contains "LayerNorm.weight"
NoWeightDecay(name) == name.leaf = "bias"

LrOf(name, lrs) ==
    IF name.kind = "layers" THEN lrs[name.idx + 1]
    ELSE IF name.kind = "embed_" THEN lrs[1]
    ELSE lrs[Len(lrs)]

TuningGroup(name, lr, num, den, weight_decay, L) ==
    [tag |-> "plm", name |-> name, params |-> {Qualify(name)},
     lr_num |-> LrOf(name, Lrs(lr, num, den, L)), lr_den |-> Pow(den, L),
     weight_decay |-> IF NoWeightDecay(name) THEN 0 ELSE weight_decay]

\* variant: the requires_grad filter of lines 133-135 is left out
KeepTuned_All(flags, name) == TRUE

\* lines 133-135
KeepTuned(flags, name) == flags[Qualify(name)]

SetOptLr(lr, num, den, weight_decay, L, flags) ==
    LET all == [k \in 1..Len(OptNamedParameters(L)) |->
                   TuningGroup(OptNamedParameters(L)[k], lr, num, den,
                               weight_decay, L)]
        Keep(g) == KeepTuned(flags, g.name)
    IN SelectSeq(all, Keep)

\* ---- OPTSeqRec.configure_optimizers (lines 138-166) ----------------------
\* variant: every named parameter goes to "the_rest"
TheRestParams_All(names, opt_tuning_names) == Range(names)

\* lines 154-157
TheRestParams(names, opt_tuning_names) ==
    {p \in Range(names) : p \notin opt_tuning_names}

ParamGroups(n, lr, wd, plm_lr, num, den, plm_wd, L, flags) ==
    IF n = 0
    THEN <<[tag |-> "default", name |-> OptParamName("all", 0, ""),
            params |-> Range(NamedParameters(L)),
            lr_num |-> lr, lr_den |-> 1, weight_decay |-> wd]>>
    ELSE LET opt_tuning_params == SetOptLr(plm_lr, num, den, plm_wd, L, flags)
             opt_tuning_names == {Qualify(g.name) : g \in Range(opt_tuning_params)}
         IN opt_tuning_params \o
            <<[tag |-> "the_rest", name |-> OptParamName("the_rest", 0, ""),
               params |-> TheRestParams(NamedParameters(L), opt_tuning_names),
               lr_num |-> lr, lr_den |-> 1, weight_decay |-> wd]>>

WeightDecays == {0, 1}
NoFreezeCall == [called |-> FALSE, arg |-> 0, err |-> "none"]
NoSetOptLrCall == [called |-> FALSE, lr |-> 0, num |-> 1, den |-> 1]

\* ---- OPTPromptSeqRec.__init__ ------------------------------------------
\* variant: the assert accepts last_query_len = 0
ConstructFails_NoQueryAllowed(post, lq) == post > 0 /\ ~(lq >= 0)

\* the assert of line 216, reached only when a postfix encoder is built
ConstructFails(post, lq) == post > 0 /\ ~(lq >= 1)

TypeOK ==
    /\ num_hidden_layers \in 1..(MaxLayers + 1)
    /\ constructed \in {"none", "ok", "error"}
    /\ pc \in {"idle", "step1", "splice", "step2", "pool", "done", "error"}
    /\ pooling_method \in PoolingMethods

Init ==
    /\ num_hidden_layers \in 1..MaxLayers
    /\ plm_last_n_unfreeze \in -1..num_hidden_layers
    /\ pre_seq_len = 0
    /\ post_seq_len = 0
    /\ last_query_len = 0
    /\ pooling_method = "mean"
    /\ prompt_layers = num_hidden_layers
    /\ constructed = "none"
    /\ pc = "idle"
    /\ err = "none"
    /\ attention_mask = <<>>
    /\ prompt_attention_mask = <<>>
    /\ past_key_values = None
    /\ step1_cache = None
    /\ calls = <<>>
    /\ output = Unbound
    /\ last_token_embs = Unbound
    /\ item_embs = Unbound
    /\ plain_calls = <<>>
    /\ plain_item_embs = Unbound
    /\ requires_grad =
          [p \in Range(NamedParameters(num_hidden_layers)) |-> TRUE]
    /\ raised = NoFreezeCall
    /\ set_opt_lr_args = NoSetOptLrCall
    /\ optimizer = <<>>
    /\ pi_pooling_method = "mean"
    /\ pi_opt = "unset"
    /\ pi_pc = "none"
    /\ pi_err = "none"
    /\ pi_forward = Unbound
    /\ pi_feature_extract = Unbound
    /\ pi_get_opt_output = Unbound
    /\ pi_calls = <<>>
    /\ pi_pooled = Unbound
    /\ pi_output = Unbound

\* OPTPromptSeqRec(config): lines 197-235
Construct(pre, post, lq, pool, n_prompt_layers) ==
    /\ constructed = "none"
    /\ pre_seq_len' = pre
    /\ post_seq_len' = post
    /\ last_query_len' = lq
    /\ pooling_method' = pool
    /\ prompt_layers' = n_prompt_layers
    /\ IF ConstructFails(post, lq)
       THEN constructed' = "error" /\ err' = "AssertionError"
       ELSE constructed' = "ok" /\ err' = "none"
    /\ UNCHANGED <<num_hidden_layers, plm_last_n_unfreeze, pc, attention_mask,
                   prompt_attention_mask, past_key_values, step1_cache, calls,
                   output, last_token_embs, item_embs, plainVars, optVars>>
    /\ UNCHANGED preVars

\* ---- OPTPromptSeqRec._get_opt_output -----------------------------------
\* lines 244-248 / 257: cache and mask of the first pass
Step1Cache(pre) ==
    IF pre > 0 THEN DeepPromptEncoder(prompt_layers, pre, "prefix") ELSE None

Step1Mask(pre, mask) ==
    IF pre > 0 THEN Ones(pre) \o mask ELSE mask

\* variant: the postfix entries are put in front of the step-1 entries
SpliceCache_PostfixFirst(past, prompt) ==
    [l \in 1..(IF Len(past) < Len(prompt) THEN Len(past) ELSE Len(prompt)) |->
        <<prompt[l][1] \o past[l][1], prompt[l][2] \o past[l][2]>>]

\* lines 263-271: zip() stops at the shorter of the two caches
SpliceCache(past, prompt) ==
    [l \in 1..(IF Len(past) < Len(prompt) THEN Len(past) ELSE Len(prompt)) |->
        <<past[l][1] \o prompt[l][1], past[l][2] \o prompt[l][2]>>]

\* variant: the mask extension forgets the postfix positions
PostFixAttentionMask_QueryOnly(post, lq) == Ones(lq)

\* lines 273-275
PostFixAttentionMask(post, lq) == Ones(post + lq)

\* a forward call enters _get_opt_output with the mask of one item text
Begin(mask) ==
    /\ constructed = "ok"
    /\ pc \in {"idle", "done", "error"}
    /\ pc' = "step1"
    /\ err' = "none"
    /\ attention_mask' = mask
    /\ prompt_attention_mask' = <<>>
    /\ past_key_values' = None
    /\ step1_cache' = None
    /\ calls' = <<>>
    /\ output' = Unbound
    /\ last_token_embs' = Unbound
    /\ item_embs' = Unbound
    /\ plain_calls' = <<>>
    /\ plain_item_embs' = Unbound
    /\ UNCHANGED <<cfgVars, optVars>>
    /\ UNCHANGED preVars

\* lines 243-258: first backbone pass
Step1 ==
    /\ pc = "step1"
    /\ LET call == OptCall(InputIds(Len(attention_mask)),
                           Step1Mask(pre_seq_len, attention_mask),
                           Step1Cache(pre_seq_len), FALSE)
       IN /\ calls' = Append(calls, call)
          /\ prompt_attention_mask' = call.attention_mask
          /\ IF OptFails(call)
             THEN /\ pc' = "error"
                  /\ err' = "IndexError"
                  /\ UNCHANGED <<output, past_key_values, step1_cache>>
             ELSE /\ output' = OptForward(call)
                  /\ past_key_values' = OptForward(call).past_key_values
                  /\ step1_cache' = OptForward(call).past_key_values
                  /\ pc' = IF last_query_len > 0 THEN "splice" ELSE "pool"
                  /\ err' = "none"
    /\ UNCHANGED <<cfgVars, attention_mask, last_token_embs, item_embs,
                   plainVars, optVars>>
    /\ UNCHANGED preVars

\* lines 260-277: postfix cache spliced on, mask extended
Splice ==
    /\ pc = "splice"
    /\ past_key_values' =
          IF post_seq_len > 0
          THEN SpliceCache(past_key_values,
                           DeepPromptEncoder(prompt_layers, post_seq_len, "postfix"))
          ELSE past_key_values
    /\ prompt_attention_mask' =
          prompt_attention_mask \o PostFixAttentionMask(post_seq_len, last_query_len)
    /\ pc' = "step2"
    /\ UNCHANGED <<cfgVars, err, attention_mask, step1_cache, calls, output,
                   last_token_embs, item_embs, plainVars, optVars>>
    /\ UNCHANGED preVars

\* lines 279-284: second backbone pass on the last-query embeddings
Step2 ==
    /\ pc = "step2"
    /\ LET call == OptCall(PromptEncoder(last_query_len), prompt_attention_mask,
                           past_key_values, FALSE)
       IN /\ calls' = Append(calls, call)
          /\ IF OptFails(call)
             THEN /\ pc' = "error"
                  /\ err' = "IndexError"
                  /\ UNCHANGED last_token_embs
             ELSE /\ last_token_embs' = OptForward(call)
                  /\ pc' = "pool"
                  /\ err' = "none"
    /\ UNCHANGED <<cfgVars, attention_mask, prompt_attention_mask,
                   past_key_values, step1_cache, output, item_embs,
                   plainVars, optVars>>
    /\ UNCHANGED preVars

\* variant: mean pooling weighted by the prompt-extended mask
PoolMean_PromptMask(sentence_embs, real_mask, prompt_mask) ==
    mean_pooling(sentence_embs, prompt_mask)

\* lines 286-298: pooling; "mean" pools pass 1 over the real-token mask
PoolMean(sentence_embs, real_mask, prompt_mask) ==
    mean_pooling(sentence_embs, real_mask)

Pool ==
    /\ pc = "pool"
    /\ LET sentence_embs == output.last_hidden_state
           mean_embs == PoolMean(sentence_embs, attention_mask,
                                 prompt_attention_mask)
       IN IF pooling_method = "mean"
          THEN item_embs' = mean_embs /\ pc' = "done" /\ err' = "none"
          ELSE IF last_token_embs = Unbound
               THEN /\ item_embs' = Unbound
                    /\ pc' = "error"
                    /\ err' = "UnboundLocalError"
               ELSE /\ item_embs' =
                         IF pooling_method = "last"
                         THEN LastPosition(last_token_embs.last_hidden_state)
                         ELSE Fusion(mean_embs,
                                     LastPosition(last_token_embs.last_hidden_state))
                    /\ pc' = "done"
                    /\ err' = "none"
    /\ UNCHANGED <<cfgVars, attention_mask, prompt_attention_mask,
                   past_key_values, step1_cache, calls, output,
                   last_token_embs, plainVars, optVars>>
    /\ UNCHANGED preVars

\* ---- OPTSeqRec._get_opt_output (lines 96-111) on the same batch, once the
\* prompt model has returned or raised ----
PlainForward ==
    /\ pc \in {"done", "error"}
    /\ plain_calls = <<>>
    /\ LET call == OptCall(InputIds(Len(attention_mask)), attention_mask, None,
                           plm_last_n_unfreeze = 0)
           sentence_embs == OptForward(call).last_hidden_state
       IN /\ plain_calls' = <<call>>
          /\ plain_item_embs' =
                IF pooling_method = "mean"
                THEN mean_pooling(sentence_embs, attention_mask)
                ELSE IF pooling_method = "last"
                     THEN last_pooling(sentence_embs, attention_mask)
                     ELSE [error |-> "UnboundLocalError"]
    /\ UNCHANGED <<cfgVars, fwdVars, optVars>>
    /\ UNCHANGED preVars

Next ==
    \/ \E pre \in 0..MaxSegLen, post \in 0..MaxSegLen, lq \in 0..MaxSegLen,
          pool \in PoolingMethods, pl \in 1..MaxLayers :
            Construct(pre, post, lq, pool, pl)
    \/ \E len \in 1..MaxTokenLen : \E mask \in PaddedMasks(len) : Begin(mask)
    \/ Step1
    \/ Splice
    \/ Step2
    \/ Pool
    \/ PlainForward

Spec == Init /\ [][Next]_vars

\* ---- construction of the optimizer ---------------------------------------
\* self._freeze_plm_layers(n), before the trainer asks for the optimizer
FreezePlmLayers(n) ==
    /\ optimizer = <<>>
    /\ IF FreezeRaises(n, num_hidden_layers)
       THEN /\ raised' = [called |-> TRUE, arg |-> n, err |-> "ValueError"]
            /\ UNCHANGED requires_grad
       ELSE /\ raised' = [called |-> TRUE, arg |-> n, err |-> "none"]
            /\ requires_grad' = FreezeFlags(requires_grad, n, num_hidden_layers)
    /\ UNCHANGED <<cfgVars, fwdVars, plainVars, set_opt_lr_args, optimizer>>
    /\ UNCHANGED preVars

\* self.configure_optimizers(), called once by the trainer
ConfigureOptimizers(lr, wd, plm_lr, num, den, plm_wd) ==
    /\ optimizer = <<>>
    /\ optimizer' = ParamGroups(plm_last_n_unfreeze, lr, wd, plm_lr, num, den,
                                plm_wd, num_hidden_layers, requires_grad)
    /\ set_opt_lr_args' =
          IF plm_last_n_unfreeze = 0 THEN set_opt_lr_args
          ELSE [called |-> TRUE, lr |-> plm_lr, num |-> num, den |-> den]
    /\ UNCHANGED <<cfgVars, fwdVars, plainVars, requires_grad, raised>>
    /\ UNCHANGED preVars

NextOpt ==
    \/ \E n \in -2..(MaxLayers + 1) : FreezePlmLayers(n)
    \/ \E lr \in 1..MaxLr, wd \in WeightDecays, plm_lr \in 0..MaxLr,
          num \in 1..MaxDecay, den \in 1..MaxDecay, plm_wd \in WeightDecays :
            ConfigureOptimizers(lr, wd, plm_lr, num, den, plm_wd)

SpecOpt == Init /\ [][NextOpt]_vars

\* ======================= PreInferOPTSeqRec ===============================
\* an argument that is None
NoneArg == [kind |-> "None"]
\* precomputed hidden states of an item text of len positions
HiddenState(len) == [kind |-> "hidden_state", len |-> len]
\* an attention mask tensor
MaskTensor(bits) == [kind |-> "attention_mask", bits |-> bits]
\* precomputed item embeddings
ItemEmbs == [kind |-> "item_embs"]

\* tensor.view(-1, ...): the batch axes are merged, the content is kept
View(tensor) == tensor

\* Python binds the positional arguments of a call to the parameters of the
\* callee in the order of its def line
BindPositional(params, args) ==
    [name \in Range(params) |->
        args[CHOOSE i \in 1..Len(params) : params[i] = name]]

\* def forward(self, item_seq_mask, inputs_hidden_state=None,
\*             attention_mask=None, item_embs=None): lines 395-401; the
\* callers of lines 416-425 pass these by keyword
ForwardParams == <<"inputs_hidden_state", "attention_mask", "item_embs">>

\* def _feature_extract(self, inputs_hidden_state=None, attention_mask=None,
\*                      item_embs=None): lines 375-379
FeatureExtractParams == <<"inputs_hidden_state", "attention_mask", "item_embs">>

\* def _get_opt_output(self, attention_mask, inputs_hidden_state): line 362
GetOptOutputParams == <<"attention_mask", "inputs_hidden_state">>

\* self._feature_extract(inputs_hidden_state, attention_mask, item_embs):
\* lines 405-406
FeatureExtractArgs(frame) ==
    <<frame.inputs_hidden_state, frame.attention_mask, frame.item_embs>>

\* self._get_opt_output(inputs_hidden_state, attention_mask): line 385
GetOptOutputArgs(hidden, mask) == <<hidden, mask>>

\* self.opt(inputs_hidden_state=..., attention_mask=...): lines 363-364
PreInferOptCall(frame) ==
    [inputs_hidden_state |-> frame.inputs_hidden_state,
     attention_mask |-> frame.attention_mask]

\* PreInferOPTSeqRec(config): lines 336-348; no backbone when nothing of it
\* is unfrozen
PreInferConstruct(pool) ==
    /\ pi_pc = "none"
    /\ pi_pooling_method' = pool
    /\ pi_opt' = IF plm_last_n_unfreeze = 0 THEN "None" ELSE "model"
    /\ pi_pc' = "idle"
    /\ UNCHANGED <<pi_err, pi_forward, pi_feature_extract, pi_get_opt_output,
                   pi_calls, pi_pooled, pi_output>>
    /\ UNCHANGED <<cfgVars, fwdVars, plainVars, optVars>>

\* forward(...), lines 395-406: the assert, then the call of _feature_extract
PreInferForward(inputs_hidden_state, mask, embs) ==
    /\ pi_pc \in {"idle", "done", "error"}
    /\ pi_forward' = [inputs_hidden_state |-> inputs_hidden_state,
                      attention_mask |-> mask, item_embs |-> embs]
    /\ pi_get_opt_output' = Unbound
    /\ pi_calls' = <<>>
    /\ pi_pooled' = Unbound
    /\ pi_output' = Unbound
    /\ IF inputs_hidden_state = NoneArg /\ embs = NoneArg
       THEN /\ pi_pc' = "error"
            /\ pi_err' = "AssertionError"
            /\ pi_feature_extract' = Unbound
       ELSE /\ pi_pc' = "feature_extract"
            /\ pi_err' = "none"
            /\ pi_feature_extract' =
                  BindPositional(FeatureExtractParams,
                                 FeatureExtractArgs(pi_forward'))
    /\ UNCHANGED <<pi_pooling_method, pi_opt>>
    /\ UNCHANGED <<cfgVars, fwdVars, plainVars, optVars>>

\* _feature_extract, lines 380-385: the views, then the call of
\* _get_opt_output; with item_embs given the backbone is skipped
PreInferFeatureExtract ==
    /\ pi_pc = "feature_extract"
    /\ IF pi_feature_extract.item_embs # NoneArg
       THEN /\ pi_pc' = "project"
            /\ pi_pooled' = pi_feature_extract.item_embs
            /\ UNCHANGED <<pi_err, pi_get_opt_output>>
       ELSE IF pi_feature_extract.attention_mask = NoneArg
       THEN /\ pi_pc' = "error"
            /\ pi_err' = "AttributeError"
            /\ UNCHANGED <<pi_get_opt_output, pi_pooled>>
       ELSE /\ pi_pc' = "get_opt_output"
            /\ pi_get_opt_output' =
                  BindPositional(GetOptOutputParams,
                     GetOptOutputArgs(View(pi_feature_extract.inputs_hidden_state),
                                      View(pi_feature_extract.attention_mask)))
            /\ UNCHANGED <<pi_err, pi_pooled>>
    /\ UNCHANGED <<pi_pooling_method, pi_opt, pi_forward, pi_feature_extract,
                   pi_calls, pi_output>>
    /\ UNCHANGED <<cfgVars, fwdVars, plainVars, optVars>>

\* _get_opt_output, lines 363-373: the backbone call and the pooling.  What
\* the backbone does with a mask in place of hidden states is its own
\* business: it may raise or return.
PreInferGetOptOutput ==
    /\ pi_pc = "get_opt_output"
    /\ IF pi_opt = "None"
       THEN /\ pi_pc' = "error"
            /\ pi_err' = "TypeError"
            /\ UNCHANGED <<pi_calls, pi_pooled>>
       ELSE LET call == PreInferOptCall(pi_get_opt_output)
                sentence_embs == [of |-> call]
            IN /\ pi_calls' = Append(pi_calls, call)
               /\ \/ /\ call.inputs_hidden_state.kind # "hidden_state"
                     /\ pi_pc' = "error"
                     /\ pi_err' = "RuntimeError"
                     /\ UNCHANGED pi_pooled
                  \/ IF pi_pooling_method = "mean"
                     THEN /\ pi_pooled' =
                               mean_pooling(sentence_embs,
                                            pi_get_opt_output.attention_mask)
                          /\ pi_pc' = "project"
                          /\ pi_err' = "none"
                     ELSE IF pi_pooling_method = "last"
                     THEN /\ pi_pooled' =
                               last_pooling(sentence_embs,
                                            pi_get_opt_output.attention_mask)
                          /\ pi_pc' = "project"
                          /\ pi_err' = "none"
                     ELSE /\ pi_pc' = "error"
                          /\ pi_err' = "UnboundLocalError"
                          /\ UNCHANGED pi_pooled
    /\ UNCHANGED <<pi_pooling_method, pi_opt, pi_forward, pi_feature_extract,
                   pi_get_opt_output, pi_output>>
    /\ UNCHANGED <<cfgVars, fwdVars, plainVars, optVars>>

\* _feature_extract lines 387-393 and forward lines 408-410: projection,
\* sequence encoder and classification head on the pooled embeddings
PreInferProject ==
    /\ pi_pc = "project"
    /\ pi_output' = [kind |-> "logits", of |-> pi_pooled]
    /\ pi_pc' = "done"
    /\ UNCHANGED <<pi_pooling_method, pi_opt, pi_err, pi_forward,
                   pi_feature_extract, pi_get_opt_output, pi_calls, pi_pooled>>
    /\ UNCHANGED <<cfgVars, fwdVars, plainVars, optVars>>

PreInferInputs ==
    {NoneArg} \cup {HiddenState(len) : len \in 1..MaxTokenLen}

PreInferMasks(inputs_hidden_state) ==
    {NoneArg} \cup
    (IF inputs_hidden_state = NoneArg THEN {}
     ELSE {MaskTensor(m) : m \in PaddedMasks(inputs_hidden_state.len)})

NextPreInfer ==
    \/ \E pool \in PoolingMethods : PreInferConstruct(pool)
    \/ \E h \in PreInferInputs : \E m \in PreInferMasks(h) :
          \E e \in {NoneArg, ItemEmbs} : PreInferForward(h, m, e)
    \/ PreInferFeatureExtract
    \/ PreInferGetOptOutput
    \/ PreInferProject

SpecPreInfer == Init /\ [][NextPreInfer]_vars

\* ======================= claims on the forward protocol ==================
RealLen == Len(attention_mask)

\* C1: every backbone pass of OPTPromptSeqRec._get_opt_output gets a mask
\* whose length is the length of the cache passed as past_key_values plus the
\* number of new input positions; pass 1 has mask pre + real over a cache of
\* pre, pass 2 (run exactly when last_query_len > 0) has mask
\* pre + real + post + lq over a cache of pre + real + post; for pre = 2,
\* post = 0, lq = 1, real = 5 the step-1 cache has length 7 and the step-2
\* mask length 8.
C1_MaskMatchesCache ==
    /\ \A i \in 1..Len(calls) :
          Len(calls[i].attention_mask) =
             CacheLen(calls[i].past_key_values) + calls[i].input.len
    /\ Len(calls) >= 1 =>
          /\ Len(calls[1].attention_mask) = pre_seq_len + RealLen
          /\ CacheLen(calls[1].past_key_values) = pre_seq_len
          /\ calls[1].input.len = RealLen
    /\ Len(calls) >= 2 =>
          /\ last_query_len > 0
          /\ Len(calls[2].attention_mask) =
                pre_seq_len + RealLen + post_seq_len + last_query_len
          /\ CacheLen(calls[2].past_key_values) =
                pre_seq_len + RealLen + post_seq_len
          /\ calls[2].input.len = last_query_len
    /\ pc \in {"pool", "done"} =>
          Len(calls) = (IF last_query_len > 0 THEN 2 ELSE 1)
    /\ (pre_seq_len = 2 /\ post_seq_len = 0 /\ last_query_len = 1
            /\ RealLen = 5 /\ Len(calls) = 2) =>
          /\ CacheLen(step1_cache) = 7
          /\ Len(calls[2].attention_mask) = 8

C1_Witness ==
    /\ pc = "done"
    /\ pre_seq_len = 2 /\ post_seq_len = 0 /\ last_query_len = 1
    /\ RealLen = 5
    /\ Len(calls) = 2
    /\ CacheLen(calls[2].past_key_values) = 7
    /\ Len(calls[2].attention_mask) = 8

BadPoolingConfig ==
    pooling_method \in {"last", "mean_last"} /\ last_query_len = 0

\* C6: a prompt model configured with pooling "last" or "mean_last" and
\* last_query_len = 0 is rejected by the constructor, before any backbone
\* pass; it never gets into the forward pass and fails there.
C6_RejectedAtConstruction ==
    (constructed # "none" /\ BadPoolingConfig) =>
        /\ constructed = "error"
        /\ calls = <<>>
        /\ ~(pc = "error" /\ err = "UnboundLocalError")

\* C7: constructing the prompt model with post_seq_len > 0 and
\* last_query_len = 0 fails in the constructor, so no constructed model has a
\* postfix segment without a last-query segment.
C7_PostfixNeedsLastQuery ==
    /\ constructed = "ok" => ~(post_seq_len > 0 /\ last_query_len = 0)
    /\ (constructed # "none" /\ post_seq_len > 0 /\ last_query_len = 0) =>
          /\ constructed = "error"
          /\ err = "AssertionError"
          /\ pc = "idle"
          /\ calls = <<>>

C7_Witness ==
    /\ constructed = "error"
    /\ post_seq_len > 0
    /\ last_query_len = 0

\* C8: when the postfix cache is spliced onto the step-1 cache, a mismatch in
\* the number of per-layer entries makes the forward call fail at the splice;
\* the splice never leaves a cache with fewer layer entries than the step-1
\* cache.
C8_SpliceFailsFast ==
    (pc = "step2" /\ post_seq_len > 0) =>
        /\ prompt_layers = Len(step1_cache)
        /\ Len(past_key_values) = Len(step1_cache)

\* the segments of one cache entry in protocol order
SegmentOrder(pre, real, post) ==
    Positions(pre, "prefix") \o Positions(real, "real") \o Positions(post, "postfix")

C9_Inv ==
    /\ pc \in {"splice", "step2"} =>
          /\ Len(calls) = 1
          /\ output # Unbound
          /\ step1_cache = output.past_key_values
    /\ Len(calls) >= 2 =>
          /\ output # Unbound
          /\ calls[1].input.kind = "input_ids"
          /\ calls[2].input.kind = "inputs_embeds"
          /\ \A l \in 1..Len(calls[2].past_key_values) :
                /\ calls[2].past_key_values[l][1] =
                      SegmentOrder(pre_seq_len, RealLen, post_seq_len)
                /\ calls[2].past_key_values[l][2] =
                      SegmentOrder(pre_seq_len, RealLen, post_seq_len)
    /\ \A l \in 1..Len(past_key_values) :
          /\ Len(past_key_values[l][1]) = CacheLen(past_key_values)
          /\ Len(past_key_values[l][2]) = CacheLen(past_key_values)

\* C9: pass 2 starts only after pass 1 has returned its cache; every entry of
\* the cache handed to pass 2 is the prefix positions, then the real-token
\* positions, then the postfix positions; the cache length is the same in
\* every layer entry and never decreases from one step of a forward call to
\* the next.
C9_CausalOrder ==
    /\ []C9_Inv
    /\ [][pc' # "step1" =>
            CacheLen(past_key_values') >= CacheLen(past_key_values)]_vars

C9_Witness ==
    /\ pc = "done"
    /\ pre_seq_len > 0 /\ post_seq_len > 0 /\ last_query_len > 0
    /\ Len(calls) = 2
    /\ CacheLen(calls[2].past_key_values) =
          pre_seq_len + RealLen + post_seq_len

AllPromptsOff == pre_seq_len = 0 /\ post_seq_len = 0 /\ last_query_len = 0

\* C10: with all prompt lengths 0 and pooling "mean" the prompt model makes
\* exactly one backbone call, on the real tokens, the unmodified real mask and
\* no cache, and mean-pools that call's hidden states over the real mask: the
\* backbone inputs and pooling inputs of plain OPTSeqRec._get_opt_output; for
\* any prompt lengths "mean" pools the step-1 hidden states over the
\* real-token mask only.
C10_MeanReducesToPlain ==
    (pc = "done" /\ pooling_method = "mean") =>
        /\ item_embs.method = "mean"
        /\ item_embs.mask = attention_mask
        /\ item_embs.hidden.of = calls[1]
        /\ item_embs.hidden.len = RealLen
        /\ AllPromptsOff =>
              /\ Len(calls) = 1
              /\ calls[1].input = InputIds(RealLen)
              /\ calls[1].attention_mask = attention_mask
              /\ calls[1].past_key_values = None
              /\ plain_calls # <<>> =>
                    /\ Len(plain_calls) = 1
                    /\ plain_calls[1].input = calls[1].input
                    /\ plain_calls[1].attention_mask = calls[1].attention_mask
                    /\ plain_calls[1].past_key_values = calls[1].past_key_values
                    /\ plain_item_embs.method = item_embs.method
                    /\ plain_item_embs.mask = item_embs.mask
                    /\ plain_item_embs.hidden.len = item_embs.hidden.len
                    /\ plain_item_embs.hidden.of = plain_calls[1]

C10_Witness ==
    /\ pc = "done"
    /\ pooling_method = "mean"
    /\ AllPromptsOff
    /\ plain_calls # <<>>
    /\ item_embs # Unbound
    /\ \E i \in 1..RealLen : attention_mask[i] = 0

\* ======================= claims on the optimizer =========================
AllParams == Range(NamedParameters(num_hidden_layers))
BackboneParams == {p \in AllParams : p.module = "opt"}
GroupsOf(p) == {i \in 1..Len(optimizer) : p \in optimizer[i].params}

\* C2: after optimizer construction, for every plm_last_n_unfreeze in
\* [-1, num_layers], every trainable parameter is in exactly one parameter
\* group: never in none, never in a backbone group and "the_rest" at once.
C2_TrainableInExactlyOneGroup ==
    optimizer # <<>> =>
        \A p \in AllParams :
            requires_grad[p] => Cardinality(GroupsOf(p)) = 1

C2_Witness ==
    /\ optimizer # <<>>
    /\ plm_last_n_unfreeze > 0
    /\ raised = [called |-> TRUE, arg |-> plm_last_n_unfreeze, err |-> "none"]
    /\ \E p \in BackboneParams : requires_grad[p]
    /\ \E i \in 1..Len(optimizer) : optimizer[i].tag = "plm"
    /\ \E i \in 1..Len(optimizer) : optimizer[i].tag = "the_rest"

\* the flags are those the configured unfreeze count left behind
FrozenAsConfigured ==
    raised = [called |-> TRUE, arg |-> plm_last_n_unfreeze, err |-> "none"]

\* C3: after optimizer construction no frozen parameter is in any parameter
\* group, "the_rest" included: with plm_last_n_unfreeze = n (0 <= n <= L) the
\* groups hold only the parameters of the last n layers and the trainable
\* parameters outside the backbone.
C3_NoFrozenInGroups ==
    (optimizer # <<>> /\ FrozenAsConfigured /\ plm_last_n_unfreeze >= 0) =>
        \A p \in AllParams : ~requires_grad[p] => GroupsOf(p) = {}

\* C4: _freeze_plm_layers(n) accepts exactly n in [-1, L]; after -1 every
\* backbone parameter is trainable, after 0 none is, after n > 0 exactly those
\* of the last n decoder layers are, whatever the flags were before; for
\* n < -1 or n > L it raises and leaves every flag as it was.
C4_Inv ==
    raised.called =>
        /\ raised.err = "ValueError" <=>
              (raised.arg < -1 \/ raised.arg > num_hidden_layers)
        /\ raised.err = "none" =>
              \A p \in BackboneParams :
                 requires_grad[p] <=>
                    \/ raised.arg = -1
                    \/ /\ raised.arg > 0
                       /\ p.kind = "layers"
                       /\ p.idx >= num_hidden_layers - raised.arg
        /\ \A p \in AllParams \ BackboneParams : requires_grad[p]

C4_FreezePlmLayers ==
    /\ []C4_Inv
    /\ [][raised'.err = "ValueError" => requires_grad' = requires_grad]_vars

C4_Witness ==
    /\ raised.called /\ raised.err = "none"
    /\ raised.arg > 0 /\ raised.arg < num_hidden_layers
    /\ \E p \in BackboneParams : requires_grad[p]
    /\ \E p \in BackboneParams : p.kind = "layers" /\ ~requires_grad[p]

LayerGroups == {g \in Range(optimizer) : g.tag = "plm" /\ g.name.kind = "layers"}

LrMonotonic ==
    \/ \A g, h \in LayerGroups : g.name.idx <= h.name.idx => g.lr_num <= h.lr_num
    \/ \A g, h \in LayerGroups : g.name.idx <= h.name.idx => g.lr_num >= h.lr_num

DeepestGroups == {g \in LayerGroups : g.name.idx = num_hidden_layers - 1}

C11_ArgumentsNotExchanged ==
    pi_forward # Unbound /\ pi_forward.item_embs = NoneArg =>
        /\ pi_get_opt_output # Unbound =>
              /\ pi_get_opt_output.inputs_hidden_state =
                    pi_forward.inputs_hidden_state
              /\ pi_get_opt_output.attention_mask = pi_forward.attention_mask
        /\ \A i \in 1..Len(pi_calls) :
              /\ pi_calls[i].inputs_hidden_state = pi_forward.inputs_hidden_state
              /\ pi_calls[i].attention_mask = pi_forward.attention_mask
        /\ (pi_pooled # Unbound /\ pi_pc \in {"project", "done"}) =>
              pi_pooled.mask = pi_forward.attention_mask

====
